---- MODULE Spec2Model ----
(***************************************************************************)
(* Model of analyzecps.py: the CPS file is read line by line into          *)
(* `intervals`, the window bounds are derived, the dense arrival array     *)
(* `cps_array` is loaded, and calculate_queue_time / get_daily_maxima run  *)
(* once (--cps) or once per answer typed at the prompt.                    *)
(*                                                                         *)
(* Time is counted in ticks.  A datetime is a number of ticks since the    *)
(* first instant of the model; a second has TicksPerSecond ticks (the      *)
(* source has 1000000 microseconds) and a day SecondsPerDay seconds (the   *)
(* source has 86400); both are scaled down so that fractions of a second   *)
(* and several day windows fit in a finite model.                          *)
(*                                                                         *)
(* An optional value (None in the source) is a sequence of length 0 or 1.  *)
(* A delay (a float of the source) is an exact fraction <<num, den>> in    *)
(* lowest terms, den >= 0; <<1, 0>> is the float inf.  The rounding of     *)
(* the float32 store and the width of numpy's integers are not modelled:   *)
(* the counts and capacities of the model are far below both.              *)
(* Arrays are 1-based here and 0-based in the source: slot i of the        *)
(* source is element i + 1.                                                *)
(***************************************************************************)
EXTENDS Integers, Sequences, FiniteSets, TLC

\* ------------------------------------------------------------------ bounds
TicksPerSecond == 2        \* resolution of a datetime (source: microseconds)
SecondsPerDay == 2         \* length of a day window (source: 86400)
MaxSec == 3                \* timestamps of the file lie in [0, MaxSec) seconds
MaxLines == 2              \* lines in the CPS file
MaxCount == 2              \* counts on a line lie in 1 .. MaxCount
MaxCps == 2                \* largest capacity asked for
MaxQueries == 2            \* answers typed at the interactive prompt

MaxTick == MaxSec * TicksPerSecond
LineTimes == 0 .. (MaxTick - 1)
ArgTimes == 0 .. MaxTick
Counts == 1 .. MaxCount
Optional(S) == {<<>>} \cup {<<x>> : x \in S}
CpsArgs == Optional((-1) .. MaxCps)
DigitChars == <<"0", "1", "2", "3", "4", "5", "6", "7", "8", "9">>
Responses ==
    { <<>>, <<"Q">>, <<"q", "1">>, <<"x">>, <<"1", "x">>, <<"-", "1">> }
        \cup { <<DigitChars[d + 1]>> : d \in 0 .. MaxCps }

\* ------------------------------------------------------- datetime, timedelta
ONE_SECOND == TicksPerSecond
datetime_max == MaxTick + TicksPerSecond + 1
datetime_min == 0 - 1

\* A timedelta is kept normalised by the library: 0 <= seconds < one day and
\* 0 <= microseconds < one second, the sign being carried by days.
timedelta(ticks) ==
    [ days         |-> ticks \div (SecondsPerDay * TicksPerSecond),
      seconds      |-> (ticks % (SecondsPerDay * TicksPerSecond)) \div TicksPerSecond,
      microseconds |-> ticks % TicksPerSecond ]

num_seconds(delta) == delta.days * SecondsPerDay + delta.seconds

\* ------------------------------------------------------------------ helpers
Max(a, b) == IF b > a THEN b ELSE a
Min(a, b) == IF b < a THEN b ELSE a
Abs(a) == IF a < 0 THEN 0 - a ELSE a

RECURSIVE GCD(_, _)
GCD(a, b) == IF b = 0 THEN a ELSE GCD(b, a % b)

zeros(n) == [i \in 1 .. n |-> 0]
Zero == <<0, 1>>
Inf == <<1, 0>>

\* queue_size / cps for cps # 0, and for cps = 0 with a numpy queue_size > 0.
Divide(queue_size, cps) ==
    IF cps = 0 THEN Inf
    ELSE LET g == GCD(Abs(queue_size), Abs(cps)) IN
         IF cps > 0 THEN <<queue_size \div g, cps \div g>>
         ELSE <<(0 - queue_size) \div g, (0 - cps) \div g>>

Less(x, y) == x[1] * y[2] < y[1] * x[2]

\* ------------------------------------------------------------ int(response)
IsDigit(ch) == \E d \in 1 .. 10 : DigitChars[d] = ch
DigitValue(ch) == (CHOOSE d \in 1 .. 10 : DigitChars[d] = ch) - 1

RECURSIVE digits_value(_, _)
digits_value(chars, acc) ==
    IF chars = <<>> THEN acc
    ELSE digits_value(Tail(chars), acc * 10 + DigitValue(Head(chars)))

\* int() accepts an optional sign followed by at least one digit; anything
\* else raises ValueError.
is_int_literal(chars) ==
    LET body == IF chars # <<>> /\ Head(chars) \in {"-", "+"} THEN Tail(chars) ELSE chars
    IN  body # <<>> /\ \A k \in 1 .. Len(body) : IsDigit(body[k])

int(chars) ==
    IF Head(chars) = "-" THEN 0 - digits_value(Tail(chars), 0)
    ELSE IF Head(chars) = "+" THEN digits_value(Tail(chars), 0)
    ELSE digits_value(chars, 0)

upper(ch) == IF ch = "q" THEN "Q" ELSE ch

\* ------------------------------------------------------ calculate_queue_time
\* max(0, x) keeps the Python int 0 unless x > 0, so a queue_size of 0 is a
\* Python int and 0 / 0 raises ZeroDivisionError, while a positive queue_size
\* is a numpy integer and its division by 0 gives inf.
\* Variant: the backlog is not kept at or above zero.
RECURSIVE queue_time_loop_noclamp(_, _, _, _, _)
queue_time_loop_noclamp(cps_arr, qt, c, i, queue_size) ==
    IF i > Len(cps_arr) THEN [queue_time |-> qt, raised |-> FALSE]
    ELSE LET qs == queue_size + cps_arr[i] - c IN
         IF qs = 0 /\ c = 0 THEN [queue_time |-> qt, raised |-> TRUE]
         ELSE queue_time_loop_noclamp(cps_arr, [qt EXCEPT ![i] = Divide(qs, c)], c, i + 1, qs)

\* Variant: a slot is written only while there is a backlog.
RECURSIVE queue_time_loop_skipzero(_, _, _, _, _)
queue_time_loop_skipzero(cps_arr, qt, c, i, queue_size) ==
    IF i > Len(cps_arr) THEN [queue_time |-> qt, raised |-> FALSE]
    ELSE LET qs == Max(0, queue_size + cps_arr[i] - c) IN
         IF qs = 0 /\ c = 0 THEN [queue_time |-> qt, raised |-> TRUE]
         ELSE queue_time_loop_skipzero(cps_arr,
                                       IF qs > 0 THEN [qt EXCEPT ![i] = Divide(qs, c)] ELSE qt,
                                       c, i + 1, qs)

RECURSIVE queue_time_loop(_, _, _, _, _)
queue_time_loop(cps_arr, qt, c, i, queue_size) ==
    IF i > Len(cps_arr) THEN [queue_time |-> qt, raised |-> FALSE]
    ELSE LET qs == Max(0, queue_size + cps_arr[i] - c) IN
         IF qs = 0 /\ c = 0 THEN [queue_time |-> qt, raised |-> TRUE]
         ELSE queue_time_loop(cps_arr, [qt EXCEPT ![i] = Divide(qs, c)], c, i + 1, qs)

calculate_queue_time(cps_arr, qt, c) == queue_time_loop(cps_arr, qt, c, 1, 0)

\* ---------------------------------------------------------- get_daily_maxima
\* numpy.argmax: the 0-based position of the first occurrence of the maximum.
\* Variant: the last occurrence of the maximum.
RECURSIVE argmax_scan_last(_, _, _)
argmax_scan_last(a, i, best) ==
    IF i > Len(a) THEN best - 1
    ELSE argmax_scan_last(a, i + 1, IF ~Less(a[i], a[best]) THEN i ELSE best)

RECURSIVE argmax_scan(_, _, _)
argmax_scan(a, i, best) ==
    IF i > Len(a) THEN best - 1
    ELSE argmax_scan(a, i + 1, IF Less(a[best], a[i]) THEN i ELSE best)

argmax(a) == argmax_scan(a, 2, 1)

\* Variant: the position inside the window is taken for the slot of the series.
RECURSIVE daily_maxima_loop_relative(_, _, _, _)
daily_maxima_loop_relative(start_dt, qt, start_index, acc) ==
    IF ~(start_index < Len(qt)) THEN acc
    ELSE LET end_index == Min(start_index + SecondsPerDay, Len(qt))
             daily_max_index == argmax(SubSeq(qt, start_index + 1, end_index))
             daily_max == start_dt + daily_max_index * TicksPerSecond
         IN  daily_maxima_loop_relative(start_dt, qt, end_index,
                                        Append(acc, <<daily_max, qt[daily_max_index + 1]>>))

RECURSIVE daily_maxima_loop(_, _, _, _)
daily_maxima_loop(start_dt, qt, start_index, acc) ==
    IF ~(start_index < Len(qt)) THEN acc
    ELSE LET end_index == Min(start_index + SecondsPerDay, Len(qt))
             daily_max_index == start_index + argmax(SubSeq(qt, start_index + 1, end_index))
             daily_max == start_dt + daily_max_index * TicksPerSecond
         IN  daily_maxima_loop(start_dt, qt, end_index,
                               Append(acc, <<daily_max, qt[daily_max_index + 1]>>))

get_daily_maxima(start_dt, qt) == daily_maxima_loop(start_dt, qt, 0, <<>>)

\* ------------------------------------------------------- loading cps_array
\* cps_array[index] = count: a numpy index in [-n, 0) counts from the end of
\* the array, and one outside [-n, n) raises IndexError.
RECURSIVE load_loop(_, _, _, _)
load_loop(ivals, start_dt, arr, k) ==
    IF k > Len(ivals) THEN [cps_array |-> arr, raised |-> FALSE]
    ELSE LET index == num_seconds(timedelta(ivals[k][1] - start_dt))
             n == Len(arr)
         IN  IF index >= n \/ index < 0 - n THEN [cps_array |-> arr, raised |-> TRUE]
             ELSE load_loop(ivals, start_dt,
                            [arr EXCEPT ![(IF index < 0 THEN n + index ELSE index) + 1] = ivals[k][2]],
                            k + 1)

load_cps_array(ivals, start_dt, n) == load_loop(ivals, start_dt, zeros(n), 1)

\* -------------------------------------------------------------------- state
VARIABLES
    args,         \* parsed command line: start, end, cps (each optional)
    pc,           \* "read", "ready", "done", "exit" (sys.exit), "crash" (traceback)
    num_read,     \* lines read from the CPS file
    intervals,    \* kept lines, <<datetime, count>>, in file order
    earliest,
    latest,
    start,
    end,
    num_entries,
    cps_array,
    queue_time,
    maxima,       \* result of the last get_daily_maxima
    calls         \* capacities calculate_queue_time was called with, in order

\* The state of a run of countcps.  A run of one program leaves the state of
\* the other untouched.
VARIABLES
    count_args,      \* parsed command line of countcps: type, column, start, end
    count_pc,        \* "off", "detect", "rows", "done", "exit" (sys.exit)
    layout,          \* the kinds of the columns of the CDR file
    cdr_file,        \* the rows of the CDR file read so far, in file order
    file_pos,        \* rows the DictReader of the main loop has consumed
    cdrs_fieldnames,      \* the keys of that DictReader
    cdr_info,
    cdr,             \* the row of the current pass of the loop
    count_num_read,
    num_counted,
    count_intervals, \* the dict intervals of countcps, <<datetime, count>> in insertion order
    queue_times,     \* <<wait in ms, count>> in insertion order
    cps_file         \* the lines written to the CPS file

cvars == <<count_args, count_pc, layout, cdr_file, file_pos, cdrs_fieldnames, cdr_info, cdr,
           count_num_read, num_counted, count_intervals, queue_times, cps_file>>

vars == <<args, pc, num_read, intervals, earliest, latest, start, end,
          num_entries, cps_array, queue_time, maxima, calls, cvars>>

\* countcps is not running.
CountOff ==
    /\ count_args = [type |-> "auto", column |-> <<>>, start |-> <<>>, end |-> <<>>]
    /\ count_pc = "off"
    /\ layout = <<>>
    /\ cdr_file = <<>>
    /\ file_pos = 0
    /\ cdrs_fieldnames = <<>>
    /\ cdr_info = <<>>
    /\ cdr = <<>>
    /\ count_num_read = 0
    /\ num_counted = 0
    /\ count_intervals = <<>>
    /\ queue_times = <<>>
    /\ cps_file = <<>>

Init ==
    /\ args \in [start : Optional(ArgTimes), end : Optional(ArgTimes), cps : CpsArgs]
    /\ pc = "read"
    /\ num_read = 0
    /\ intervals = <<>>
    /\ earliest = datetime_max
    /\ latest = datetime_min
    /\ start = 0
    /\ end = 0
    /\ num_entries = 0
    /\ cps_array = <<>>
    /\ queue_time = <<>>
    /\ maxima = <<>>
    /\ calls = <<>>
    /\ CountOff

\* The two filters of lines 168-169.
before_start(dt) == IF args.start = <<>> THEN FALSE ELSE dt < args.start[1]
\* Variant: the end bound is inclusive.
after_end_inclusive(dt) == IF args.end = <<>> THEN FALSE ELSE dt > args.end[1]
after_end(dt) == IF args.end = <<>> THEN FALSE ELSE dt >= args.end[1]

\* Variant: earliest and latest are noted before the filter.
ReadLine_track_first(dt, count) ==
    /\ pc = "read"
    /\ num_read < MaxLines
    /\ num_read' = num_read + 1
    /\ earliest' = (IF dt < earliest THEN dt ELSE earliest)
    /\ latest' = (IF dt > latest THEN dt ELSE latest)
    /\ IF before_start(dt) \/ after_end(dt)
       THEN UNCHANGED intervals
       ELSE intervals' = Append(intervals, <<dt, count>>)
    /\ UNCHANGED cvars
    /\ UNCHANGED <<args, pc, start, end, num_entries, cps_array, queue_time, maxima, calls>>

\* One pass of the loop over the lines of the file (lines 163-176).
ReadLine(dt, count) ==
    /\ pc = "read"
    /\ num_read < MaxLines
    /\ num_read' = num_read + 1
    /\ IF before_start(dt) \/ after_end(dt)
       THEN UNCHANGED <<intervals, earliest, latest>>
       ELSE /\ earliest' = (IF dt < earliest THEN dt ELSE earliest)
            /\ latest' = (IF dt > latest THEN dt ELSE latest)
            /\ intervals' = Append(intervals, <<dt, count>>)
    /\ UNCHANGED cvars
    /\ UNCHANGED <<args, pc, start, end, num_entries, cps_array, queue_time, maxima, calls>>

\* End of the file with nothing kept (lines 178-179).
NoRecords ==
    /\ pc = "read"
    /\ intervals = <<>>
    /\ pc' = "exit"
    /\ UNCHANGED cvars
    /\ UNCHANGED <<args, num_read, intervals, earliest, latest, start, end,
                   num_entries, cps_array, queue_time, maxima, calls>>

\* End of the file: bounds, array sizes and the load of cps_array (lines 186-201).
Materialize ==
    /\ pc = "read"
    /\ intervals # <<>>
    /\ LET s == IF args.start # <<>> THEN args.start[1] ELSE earliest
           e == IF args.end # <<>> THEN args.end[1] ELSE latest + ONE_SECOND
           n == num_seconds(timedelta(e - s))
           loaded == load_cps_array(intervals, s, n)
       IN  /\ start' = s
           /\ end' = e
           /\ num_entries' = n
           /\ cps_array' = loaded.cps_array
           /\ queue_time' = [i \in 1 .. n |-> Zero]
           /\ pc' = IF loaded.raised THEN "crash" ELSE "ready"
    /\ UNCHANGED cvars
    /\ UNCHANGED <<args, num_read, intervals, earliest, latest, maxima, calls>>

\* calculate_queue_time, get_daily_maxima for capacity c; `next` is where the
\* program goes when neither raises.
Simulate(c, next) ==
    LET r == calculate_queue_time(cps_array, queue_time, c) IN
    /\ calls' = Append(calls, c)
    /\ queue_time' = r.queue_time
    /\ IF r.raised
       THEN /\ pc' = "crash"
            /\ UNCHANGED maxima
       ELSE /\ pc' = next
            /\ maxima' = get_daily_maxima(start, r.queue_time)
    /\ UNCHANGED cvars
    /\ UNCHANGED <<args, num_read, intervals, earliest, latest, start, end,
                   num_entries, cps_array>>

\* `if args.cps:` is false for None and for 0.
cps_given == IF args.cps = <<>> THEN FALSE ELSE args.cps[1] # 0

\* --cps given and truthy (lines 204-208).
RunCps ==
    /\ pc = "ready"
    /\ cps_given
    /\ Simulate(args.cps[1], "done")

Interactive == pc = "ready" /\ ~cps_given

\* An empty answer, or one int() rejects: ask again (lines 214, 223-224).
PromptAgain(response) ==
    /\ Interactive
    /\ IF response = <<>> THEN TRUE
       ELSE upper(response[1]) # "Q" /\ ~is_int_literal(response)
    /\ UNCHANGED vars

\* Q or q (line 215).
PromptQuit(response) ==
    /\ Interactive
    /\ response # <<>> /\ upper(response[1]) = "Q"
    /\ pc' = "done"
    /\ UNCHANGED cvars
    /\ UNCHANGED <<args, num_read, intervals, earliest, latest, start, end,
                   num_entries, cps_array, queue_time, maxima, calls>>

\* An integer (lines 218-222).
PromptCps(response) ==
    /\ Interactive
    /\ Len(calls) < MaxQueries
    /\ response # <<>> /\ upper(response[1]) # "Q" /\ is_int_literal(response)
    /\ Simulate(int(response), "ready")

Next ==
    \/ \E dt \in LineTimes, count \in Counts : ReadLine(dt, count)
    \/ NoRecords
    \/ Materialize
    \/ RunCps
    \/ \E response \in Responses : PromptAgain(response)
    \/ \E response \in Responses : PromptQuit(response)
    \/ \E response \in Responses : PromptCps(response)

Spec == Init /\ [][Next]_vars

TypeOK ==
    /\ pc \in {"read", "ready", "done", "exit", "crash"}
    /\ num_read \in 0 .. MaxLines
    /\ Len(cps_array) = Len(queue_time)

\* ===================================================================
\* countcps.py.  A CDR file is a sequence of rows, a row a sequence of
\* cells.  A cell is a string, abstracted by what the parsers of the program
\* make of it: k = "text" (no parser accepts it; s is the string), "num" (a
\* decimal integer literal of value n), or "Monkey", "Console", "ISO" (a
\* timestamp literal of that format, n ticks of local time, off its UTC
\* offset in ticks when it carries one).  Every row of a file has as many
\* cells as the first.
\* ===================================================================
MaxRows == 2               \* data rows read by the main loop of countcps
MaxCdrSec == 2             \* call times lie in [0, MaxCdrSec) seconds

MsPerSecond == 1000
OutboundBit == 2
TzOffset == TicksPerSecond \* the one UTC offset of the model: one second

Text(str) == [k |-> "text", s |-> str, n |-> 0, off |-> <<>>]
Num(v) == [k |-> "num", s |-> "#", n |-> v, off |-> <<>>]
Stamp(fmt, t, o) == [k |-> fmt, s |-> "@", n |-> t, off |-> o]

LastSecond == (MaxCdrSec - 1) * TicksPerSecond
WholeSeconds == {sec * TicksPerSecond : sec \in 0 .. (MaxCdrSec - 1)}
StampCells ==
    {Stamp("Monkey", t, <<TzOffset>>) : t \in WholeSeconds}
        \cup {Stamp("Console", t, <<>>) : t \in WholeSeconds}
        \cup {Stamp("ISO", t, <<>>) : t \in 0 .. (MaxCdrSec * TicksPerSecond - 1)}
        \cup {Stamp("ISO", t, <<TzOffset>>) : t \in WholeSeconds}

\* The cells a column of each kind may hold.
CellsOf(kind) ==
    CASE kind = "ts"    -> StampCells \cup {Text("x")}
      [] kind = "end"   -> {Stamp("ISO", LastSecond, <<>>), Stamp("Monkey", LastSecond, <<TzOffset>>), Text("x")}
      [] kind = "flags" -> {Num(0), Num(2), Num(3), Text("x")}
      [] kind = "dir"   -> {Text("Outgoing API"), Text("outbound-api"), Text("inbound")}
      [] kind = "wait"  -> {Num(0), Num(1500), Text("x")}
      [] OTHER          -> {Text("x")}

\* The files of the model: the name and the kind of each column.
Layouts ==
    { << <<"DateCreated", "ts">>, <<"Flags", "flags">> >>,
      << <<"EndTime", "end">>, <<"StartTime", "ts">> >>,
      << <<"StartTime", "ts">>, <<"Direction", "dir">> >>,
      << <<"start_time", "ts">>, <<"QueueTime", "wait">> >>,
      << <<"StartTime", "end">>, <<"date_created", "ts">> >>,
      << <<"Note", "note">>, <<"When", "ts">> >> }

HeaderRow(lay) == [i \in 1 .. Len(lay) |-> Text(lay[i][1])]
RECURSIVE RowsUpTo(_, _)
RowsUpTo(lay, i) ==
    IF i = 0 THEN {<<>>}
    ELSE {Append(r, c) : r \in RowsUpTo(lay, i - 1), c \in CellsOf(lay[i][2])}
DataRows(lay) == RowsUpTo(lay, Len(lay))

CArgTimes == {sec * TicksPerSecond : sec \in 1 .. MaxCdrSec}
CArgs ==
    [ type : {"auto"}, column : {<<>>},
      start : Optional(CArgTimes), end : Optional(CArgTimes) ]
    \cup [ type : {"header"}, column : {<<"StartTime">>, <<"EndTime">>, <<"Flags">>},
           start : Optional(CArgTimes), end : Optional(CArgTimes) ]
    \cup [ type : {"positional"}, column : {<<"1">>, <<"2">>, <<"3">>},
           start : Optional(CArgTimes), end : Optional(CArgTimes) ]

DEFAULT_FIELDNAMES == <<"1", "2", "3", "4", "5", "6", "7", "8", "9", "10">>
DATETIME_FORMATS == <<"Monkey", "Console", "ISO">>

\* ---------------------------------------------------------- look_for_datetime
\* strptime / fromisoformat accept the cell under format fmt.
parses_as(cell, fmt) == cell.k = fmt

\* The columns (from 1) of the row that parse under fmt, left to right.
RECURSIVE dt_cols_of(_, _, _, _)
dt_cols_of(columns, fmt, i, acc) ==
    IF i > Len(columns) THEN acc
    ELSE dt_cols_of(columns, fmt, i + 1,
                    IF parses_as(columns[i], fmt) THEN Append(acc, i) ELSE acc)

\* The formats are tried in order and the first that matches a column wins;
\* tzinfo is that of the last matching column.  With no match the format
\* left over from the loop is the last one, ISO.
RECURSIVE look_for_datetime_from(_, _)
look_for_datetime_from(columns, f) ==
    LET cols == dt_cols_of(columns, DATETIME_FORMATS[f], 1, <<>>) IN
    IF cols # <<>>
    THEN [dt_cols |-> cols, datetime_format |-> DATETIME_FORMATS[f],
          tzinfo |-> columns[cols[Len(cols)]].off]
    ELSE IF f = Len(DATETIME_FORMATS)
         THEN [dt_cols |-> <<>>, datetime_format |-> DATETIME_FORMATS[f], tzinfo |-> <<>>]
         ELSE look_for_datetime_from(columns, f + 1)

look_for_datetime(columns) == look_for_datetime_from(columns, 1)

\* ------------------------------------------------------------ look_for_header
InSeq(x, seq) == \E i \in 1 .. Len(seq) : seq[i] = x
IndexOf(x, seq) == CHOOSE i \in 1 .. Len(seq) : seq[i] = x /\ \A j \in 1 .. (i - 1) : seq[j] # x

\* The first candidate that is a column name, as an optional value.
RECURSIVE look_for_header(_, _)
look_for_header(columns, candidates) ==
    IF candidates = <<>> THEN <<>>
    ELSE IF InSeq(Head(candidates), columns) THEN <<Head(candidates)>>
    ELSE look_for_header(columns, Tail(candidates))

START_ALIASES == <<"DateCreated", "date_created", "StartTime", "start_time">>

\* --------------------------------------------------------------- CDRinfo
CDRinfo ==
    [ has_header |-> FALSE, start_col_id |-> <<>>, flags_col_id |-> <<>>,
      direction_col_id |-> <<>>, queuetime_col_id |-> <<>>,
      datetime_format |-> "ISO", tzinfo |-> <<>> ]

\* Variant: the first column is checked whatever column was given.
column_number_first(str) == 1

\* int(args.column) for a column given by position.
column_number(str) == IndexOf(str, DEFAULT_FIELDNAMES)

\* Variant: a recognised start column that is no timestamp gives way to the
\* first column that is one.
auto_start_fallback(hdr, fieldnames, dt_cols) ==
    IF hdr.start_col_id # <<>> /\ InSeq(IndexOf(hdr.start_col_id[1], fieldnames), dt_cols)
    THEN [exit |-> FALSE, info |-> hdr]
    ELSE [exit |-> FALSE, info |-> [hdr EXCEPT !.start_col_id = <<fieldnames[dt_cols[1]]>>]]

\* Lines 263-272: a recognised start column must be a timestamp column;
\* with none recognised the first timestamp column is taken.
auto_start(hdr, fieldnames, dt_cols) ==
    IF hdr.start_col_id # <<>>
    THEN IF InSeq(IndexOf(hdr.start_col_id[1], fieldnames), dt_cols)
         THEN [exit |-> FALSE, info |-> hdr]
         ELSE [exit |-> TRUE, info |-> hdr]
    ELSE [exit |-> FALSE, info |-> [hdr EXCEPT !.start_col_id = <<fieldnames[dt_cols[1]]>>]]

\* ---------------------------------------------------------- detect_cdr_type
\* first: the first row of the file; second: the row after it, <<>> when the
\* file ends there.  The result is the CDRinfo, or exit = TRUE for sys.exit.
detect_cdr_type(a, first, second) ==
    LET fieldnames == [i \in 1 .. Len(first) |-> first[i].s]
        found1 == look_for_datetime(first)
        has_header == (found1.dt_cols = <<>>)
        found == IF has_header /\ second # <<>> THEN look_for_datetime(second[1]) ELSE found1
        dt_cols == found.dt_cols
        base == [CDRinfo EXCEPT !.has_header = has_header,
                                !.datetime_format = found.datetime_format,
                                !.tzinfo = found.tzinfo]
        fail == [exit |-> TRUE, info |-> base]
    IN
    IF a.type = "positional" /\ has_header THEN fail
    ELSE IF a.type = "header" /\ ~has_header THEN fail
    ELSE IF has_header /\ second = <<>> THEN fail
    ELSE IF has_header /\ dt_cols = <<>> THEN fail
    ELSE IF a.type = "positional"
    THEN IF InSeq(column_number(a.column[1]), dt_cols)
         THEN [exit |-> FALSE, info |-> [base EXCEPT !.start_col_id = a.column]]
         ELSE fail
    ELSE IF a.type = "header"
    THEN IF ~InSeq(a.column[1], fieldnames) THEN fail
         ELSE IF InSeq(IndexOf(a.column[1], fieldnames), dt_cols)
         THEN [exit |-> FALSE, info |-> [base EXCEPT !.start_col_id = a.column]]
         ELSE fail
    ELSE IF has_header
    THEN LET hdr == [base EXCEPT
                        !.flags_col_id = look_for_header(fieldnames, <<"Flags", "flags">>),
                        !.direction_col_id = look_for_header(fieldnames, <<"Direction", "direction">>),
                        !.queuetime_col_id = look_for_header(fieldnames, <<"QueueTime", "queue_time">>),
                        !.start_col_id = look_for_header(fieldnames, START_ALIASES)]
         IN  auto_start(hdr, fieldnames, dt_cols)
    ELSE [exit |-> FALSE,
          info |-> [base EXCEPT !.start_col_id = <<DEFAULT_FIELDNAMES[dt_cols[1]]>>]]

\* ------------------------------------------------------------ the row loop
\* A datetime is [t, off]: t ticks of local time, off the optional UTC offset.
\* Ordering a naive against an aware datetime raises TypeError; two aware
\* ones are ordered and compared by their UTC instants.
comparable(a, b) == (a.off = <<>>) <=> (b.off = <<>>)
utc(a) == IF a.off = <<>> THEN a.t ELSE a.t - a.off[1]
same_key(a, b) == comparable(a, b) /\ utc(a) = utc(b)

\* cdr[col_id] of the DictReader: <<cell>>, or <<>> when the row has no such
\* key or no such cell (both make every use of the value raise).  Of two
\* columns of one name the dict keeps the later.
Field(names, row, col_id) ==
    LET at == {i \in 1 .. Len(names) : names[i] = col_id /\ i <= Len(row)} IN
    IF at = {} THEN <<>>
    ELSE <<row[CHOOSE i \in at : \A j \in at : j <= i]>>

\* int(x) & 0x0002 == 2 for a non-negative x.
outbound_flag(x) == (x \div OutboundBit) % 2 = 1

\* intervals[call_start] += 1, a new key going to the end of the dict.
RECURSIVE key_index(_, _, _)
key_index(ivals, key, i) ==
    IF i > Len(ivals) THEN 0
    ELSE IF same_key(ivals[i][1], key) THEN i
    ELSE key_index(ivals, key, i + 1)

tally(ivals, key) ==
    LET i == key_index(ivals, key, 1) IN
    IF i = 0 THEN Append(ivals, <<key, 1>>)
    ELSE [ivals EXCEPT ![i] = <<ivals[i][1], ivals[i][2] + 1>>]

\* queue_times[queue_time] += 1, keyed by the wait in milliseconds.
RECURSIVE wait_index(_, _, _)
wait_index(qts, ms, i) ==
    IF i > Len(qts) THEN 0
    ELSE IF qts[i][1] = ms THEN i
    ELSE wait_index(qts, ms, i + 1)

tally_wait(qts, ms) ==
    LET i == wait_index(qts, ms, 1) IN
    IF i = 0 THEN Append(qts, <<ms, 1>>)
    ELSE [qts EXCEPT ![i] = <<qts[i][1], qts[i][2] + 1>>]

\* Variant that never moves the start time (no wait adjustment).
arrival_of_raw(call_start, ms) == call_start

\* call_start -= timedelta(seconds=int(queue_time)) when queue_time > 0.
arrival_of(call_start, ms) ==
    IF ms > 0
    THEN [call_start EXCEPT !.t = call_start.t - (ms \div MsPerSecond) * TicksPerSecond]
    ELSE call_start

\* The body of the loop for one row.  outcome: "error" (an exception, hence
\* sys.exit), "filtered" (dropped by the Flags or Direction test), "outside"
\* (dropped by the window) or "counted".
process_row(info, names, a, row, ivals, qts) ==
    LET flags == IF info.flags_col_id = <<>> THEN <<>> ELSE Field(names, row, info.flags_col_id[1])
        dir == IF info.direction_col_id = <<>> THEN <<>> ELSE Field(names, row, info.direction_col_id[1])
        st == Field(names, row, info.start_col_id[1])
        wait == IF info.queuetime_col_id = <<>> THEN <<>> ELSE Field(names, row, info.queuetime_col_id[1])
        same == [outcome |-> "error", intervals |-> ivals, queue_times |-> qts]
    IN
    IF info.flags_col_id # <<>> /\ (flags = <<>> \/ flags[1].k # "num") THEN same
    ELSE IF info.flags_col_id # <<>> /\ ~outbound_flag(flags[1].n)
    THEN [same EXCEPT !.outcome = "filtered"]
    ELSE IF info.direction_col_id # <<>>
            /\ (dir = <<>> \/ dir[1].k # "text" \/ dir[1].s \notin {"Outgoing API", "outbound-api"})
    THEN [same EXCEPT !.outcome = "filtered"]
    ELSE IF st = <<>> \/ ~parses_as(st[1], info.datetime_format) THEN same
    ELSE IF info.queuetime_col_id # <<>> /\ (wait = <<>> \/ wait[1].k # "num") THEN same
    ELSE
    LET raw == [t |-> st[1].n, off |-> st[1].off]
        queued == info.queuetime_col_id # <<>>
        call_start == IF queued THEN arrival_of(raw, wait[1].n) ELSE raw
        qts2 == IF queued THEN tally_wait(qts, wait[1].n) ELSE qts
        lo == [t |-> IF a.start = <<>> THEN 0 ELSE a.start[1], off |-> info.tzinfo]
        hi == [t |-> IF a.end = <<>> THEN 0 ELSE a.end[1], off |-> info.tzinfo]
        after == [same EXCEPT !.queue_times = qts2]
    IN
    IF a.start # <<>> /\ ~comparable(call_start, lo) THEN after
    ELSE IF a.start # <<>> /\ utc(call_start) < utc(lo)
    THEN [after EXCEPT !.outcome = "outside"]
    ELSE IF a.end # <<>> /\ ~comparable(call_start, hi) THEN after
    ELSE IF a.end # <<>> /\ utc(call_start) >= utc(hi)
    THEN [after EXCEPT !.outcome = "outside"]
    ELSE [outcome |-> "counted", intervals |-> tally(ivals, call_start), queue_times |-> qts2]

\* str(key) of a datetime: the seconds, the fraction when it is not zero, the
\* offset when the datetime is aware.
str(key) ==
    [ seconds |-> key.t \div TicksPerSecond,
      fraction |-> key.t % TicksPerSecond,
      offset |-> key.off ]

\* The lines of the loop at 385-387, one per key in insertion order.
written_lines(ivals) == [i \in 1 .. Len(ivals) |-> [timestamp |-> str(ivals[i][1]), count |-> ivals[i][2]]]

\* -------------------------------------------------------- a run of countcps
\* analyzecps is not running.
AnalyzeOff ==
    /\ args = [start |-> <<>>, end |-> <<>>, cps |-> <<>>]
    /\ pc = "off"
    /\ num_read = 0
    /\ intervals = <<>>
    /\ earliest = datetime_max
    /\ latest = datetime_min
    /\ start = 0
    /\ end = 0
    /\ num_entries = 0
    /\ cps_array = <<>>
    /\ queue_time = <<>>
    /\ maxima = <<>>
    /\ calls = <<>>

avars == <<args, pc, num_read, intervals, earliest, latest, start, end,
           num_entries, cps_array, queue_time, maxima, calls>>

InitCount ==
    /\ AnalyzeOff
    /\ count_args \in CArgs
    /\ count_pc = "detect"
    /\ layout \in Layouts
    /\ cdr_file = <<>>
    /\ file_pos = 0
    /\ cdrs_fieldnames = <<>>
    /\ cdr_info = CDRinfo
    /\ cdr = <<>>
    /\ count_num_read = 0
    /\ num_counted = 0
    /\ count_intervals = <<>>
    /\ queue_times = <<>>
    /\ cps_file = <<>>

\* The first row of a file: its header, or a call record.
FirstRows(lay) == {HeaderRow(lay)} \cup DataRows(lay)

\* detect_cdr_type reads a second row iff it takes the first for a header and
\* does not stop at line 207.
sample_read(a, first) == look_for_datetime(first).dt_cols = <<>> /\ a.type # "positional"

\* What detection can find at the start of the file, and after that row.
DetectFirst == IF count_pc = "detect" THEN FirstRows(layout) ELSE {}
DetectSecond(first) ==
    IF sample_read(count_args, first) THEN Optional(DataRows(layout)) ELSE {<<>>}

\* What the reader of the main loop can deliver next.
RowsAhead ==
    IF count_pc # "rows" \/ count_num_read >= MaxRows THEN {}
    ELSE IF file_pos < Len(cdr_file) THEN {cdr_file[file_pos + 1]}
    ELSE DataRows(layout)

\* The file is empty (lines 195-196).
DetectEmpty ==
    /\ count_pc = "detect"
    /\ count_pc' = "exit"
    /\ UNCHANGED avars
    /\ UNCHANGED <<count_args, layout, cdr_file, file_pos, cdrs_fieldnames, cdr_info, cdr,
                   count_num_read, num_counted, count_intervals, queue_times, cps_file>>

\* detect_cdr_type on a file that starts with the row first, followed by the
\* row second (<<>>: by nothing) when detection reads that far; then lines
\* 323-334: the reader of the main loop takes its keys.
Detect(first, second) ==
    /\ count_pc = "detect"
    /\ second # <<>> => sample_read(count_args, first)
    /\ LET d == detect_cdr_type(count_args, first, second) IN
       /\ cdr_info' = d.info
       /\ count_pc' = IF d.exit THEN "exit" ELSE "rows"
       /\ cdrs_fieldnames' = IF d.info.has_header
                        THEN [i \in 1 .. Len(first) |-> first[i].s]
                        ELSE DEFAULT_FIELDNAMES
       /\ file_pos' = IF d.info.has_header THEN 1 ELSE 0
    /\ cdr_file' = <<first>> \o second
    /\ UNCHANGED avars
    /\ UNCHANGED <<count_args, layout, cdr, count_num_read, num_counted,
                   count_intervals, queue_times, cps_file>>

\* Variant: a row that raises is skipped and the loop goes on.
NextRow_skip(row) ==
    /\ count_pc = "rows"
    /\ count_num_read < MaxRows
    /\ row \in RowsAhead
    /\ LET r == process_row(cdr_info, cdrs_fieldnames, count_args, row, count_intervals, queue_times) IN
       /\ count_intervals' = r.intervals
       /\ queue_times' = r.queue_times
       /\ num_counted' = IF r.outcome = "counted" THEN num_counted + 1 ELSE num_counted
       /\ count_pc' = "rows"
    /\ cdr' = row
    /\ count_num_read' = count_num_read + 1
    /\ file_pos' = file_pos + 1
    /\ cdr_file' = IF file_pos < Len(cdr_file) THEN cdr_file ELSE Append(cdr_file, row)
    /\ UNCHANGED avars
    /\ UNCHANGED <<count_args, layout, cdrs_fieldnames, cdr_info, cps_file>>

\* One pass of the loop over the call records (lines 335-379): the next row
\* is one detection has read already, or a new one.
NextRow(row) ==
    /\ count_pc = "rows"
    /\ count_num_read < MaxRows
    /\ row \in RowsAhead
    /\ LET r == process_row(cdr_info, cdrs_fieldnames, count_args, row, count_intervals, queue_times) IN
       /\ count_intervals' = r.intervals
       /\ queue_times' = r.queue_times
       /\ num_counted' = IF r.outcome = "counted" THEN num_counted + 1 ELSE num_counted
       /\ count_pc' = IF r.outcome = "error" THEN "exit" ELSE "rows"
    /\ cdr' = row
    /\ count_num_read' = count_num_read + 1
    /\ file_pos' = file_pos + 1
    /\ cdr_file' = IF file_pos < Len(cdr_file) THEN cdr_file ELSE Append(cdr_file, row)
    /\ UNCHANGED avars
    /\ UNCHANGED <<count_args, layout, cdrs_fieldnames, cdr_info, cps_file>>

\* The end of the CDR file, and the CPS file written (lines 381-389).
WriteCps ==
    /\ count_pc = "rows"
    /\ file_pos = Len(cdr_file)
    /\ cps_file' = written_lines(count_intervals)
    /\ count_pc' = "done"
    /\ UNCHANGED avars
    /\ UNCHANGED <<count_args, layout, cdr_file, file_pos, cdrs_fieldnames, cdr_info, cdr,
                   count_num_read, num_counted, count_intervals, queue_times>>

NextCount ==
    \/ DetectEmpty
    \/ \E first \in DetectFirst : \E second \in DetectSecond(first) : Detect(first, second)
    \/ \E row \in RowsAhead : NextRow(row)
    \/ WriteCps

SpecCount == InitCount /\ [][NextCount]_vars

\* ------------------------------------------------------------------ claims
LastCps == calls[Len(calls)]
\* calculate_queue_time and get_daily_maxima have run and returned.
Ran == calls # <<>> /\ pc \in {"ready", "done"}
\* The arrays exist: the bounds were derived and cps_array was loaded.
Built == pc \in {"ready", "done"}
Times == {intervals[k][1] : k \in 1 .. Len(intervals)}
Lowest(S) == CHOOSE x \in S : \A y \in S : x <= y
Highest(S) == CHOOSE x \in S : \A y \in S : y <= x
\* 0-based slot of the k-th entry of maxima, from its datetime.
PeakIndex(k) == (maxima[k][1] - start) \div TicksPerSecond
WindowLo(k) == SecondsPerDay * (k - 1)
WindowHi(k) == Min(SecondsPerDay * k, Len(queue_time))
AllPositive == \A k \in 1 .. Len(calls) : calls[k] > 0

\* C1: after calculate_queue_time has run with a positive capacity c, every
\* slot i of queue_time is q(i) / c, where q(-1) = 0 and
\* q(i) = max(0, q(i-1) + cps_array[i] - c); the two scenarios of the
\* specification give [0,0,4,3,2] and [0,0,0].
C1_QueueRecurrence ==
    /\ (Ran /\ LastCps > 0) =>
          \A i \in 1 .. Len(cps_array) :
              LET prev == IF i = 1 THEN Zero ELSE queue_time[i - 1]
                  cur == queue_time[i]
              IN  /\ cur[2] > 0
                  /\ cur[1] * LastCps * prev[2]
                        = cur[2] * Max(0, prev[1] * LastCps + (cps_array[i] - LastCps) * prev[2])
    /\ calculate_queue_time(<<0, 0, 5, 0, 0>>, [i \in 1 .. 5 |-> Zero], 1).queue_time
          = << <<0, 1>>, <<0, 1>>, <<4, 1>>, <<3, 1>>, <<2, 1>> >>
    /\ calculate_queue_time(<<2, 2, 2>>, [i \in 1 .. 3 |-> Zero], 2).queue_time
          = << <<0, 1>>, <<0, 1>>, <<0, 1>> >>

\* A backlog of one second builds up at capacity 1 and has drained later on.
C1_Witness ==
    /\ Ran /\ LastCps = 1
    /\ \E i \in 1 .. Len(queue_time) : \E j \in 1 .. Len(queue_time) :
          i < j /\ queue_time[i] = <<1, 1>> /\ queue_time[j] = Zero /\ cps_array[j] > 0

\* C2: calculate_queue_time is never started with a capacity <= 0.
C2_NonPositiveRejected == \A k \in 1 .. Len(calls) : calls[k] > 0

\* C3: the entry of maxima for a day window sits at the earliest slot of the
\* window that holds the window's largest delay, and carries that delay; an
\* all-zero window reports 0 at its first slot.
C3_EarliestMaximum ==
    Ran => \A k \in 1 .. Len(maxima) :
              LET p == PeakIndex(k) IN
              /\ p \in WindowLo(k) .. (WindowHi(k) - 1)
              /\ maxima[k][2] = queue_time[p + 1]
              /\ \A j \in WindowLo(k) .. (WindowHi(k) - 1) :
                    /\ ~Less(queue_time[p + 1], queue_time[j + 1])
                    /\ (j < p => Less(queue_time[j + 1], queue_time[p + 1]))
              /\ (\A j \in WindowLo(k) .. (WindowHi(k) - 1) : queue_time[j + 1] = Zero)
                    => (p = WindowLo(k) /\ maxima[k][2] = Zero)

\* The first day window holds its positive maximum twice and the first of
\* the two slots is the one reported.
C3_Witness ==
    /\ Ran /\ LastCps > 0 /\ Len(queue_time) >= 2 /\ SecondsPerDay >= 2
    /\ queue_time[1] = queue_time[2] /\ queue_time[1] # Zero
    /\ PeakIndex(1) = 0

\* C4: for a delay series of n > 0 slots get_daily_maxima returns
\* ceil(n / SecondsPerDay) entries; the k-th lies in the k-th day window
\* [SecondsPerDay * k, min(SecondsPerDay * (k + 1), n)) and its datetime is
\* start plus a whole number of seconds, the slot of the peak.
C4_WindowsTile ==
    Ran => /\ Len(queue_time) > 0
           /\ Len(maxima) = (Len(queue_time) + SecondsPerDay - 1) \div SecondsPerDay
           /\ \A k \in 1 .. Len(maxima) :
                 \E p \in WindowLo(k) .. (WindowHi(k) - 1) :
                    maxima[k][1] = start + p * TicksPerSecond

\* Two day windows, the second shorter than a day, its peak not at its start.
C4_Witness ==
    /\ Ran
    /\ Len(maxima) = 2
    /\ Len(queue_time) % SecondsPerDay # 0
    /\ PeakIndex(2) >= SecondsPerDay

\* C5: when the arrays are built, end - start is a whole number of seconds
\* and cps_array has that many slots.
C5_WholeSeconds ==
    Built => /\ (end - start) % TicksPerSecond = 0
             /\ Len(cps_array) * TicksPerSecond = end - start

\* C6: when the kept lines have pairwise distinct timestamps and positive
\* counts, the non-zero slots of cps_array, read back as (start + slot
\* seconds, count), are exactly the kept lines.
C6_RoundTrip ==
    (/\ Built
     /\ \A j \in 1 .. Len(intervals) : \A k \in 1 .. Len(intervals) :
           j # k => intervals[j][1] # intervals[k][1]
     /\ \A k \in 1 .. Len(intervals) : intervals[k][2] > 0)
    => { <<start + (i - 1) * TicksPerSecond, cps_array[i]>> :
            i \in {x \in 1 .. Len(cps_array) : cps_array[x] # 0} }
          = {intervals[k] : k \in 1 .. Len(intervals)}

\* C7: the arrays are never built from a file with two kept lines for the
\* same second.
C7_DuplicateIsFatal ==
    Built => \A j \in 1 .. Len(intervals) : \A k \in 1 .. Len(intervals) :
                j # k => intervals[j][1] # intervals[k][1]

\* C8: only lines inside the window are kept, earliest and latest are the
\* smallest and largest kept timestamp whatever the order of the lines, and
\* start / end are the explicit bound when given, else earliest / latest
\* plus one second.
C8_WindowBounds ==
    /\ \A k \in 1 .. Len(intervals) :
          /\ (args.start # <<>> => intervals[k][1] >= args.start[1])
          /\ (args.end # <<>> => intervals[k][1] < args.end[1])
    /\ (intervals = <<>> => earliest = datetime_max /\ latest = datetime_min)
    /\ (intervals # <<>> => earliest = Lowest(Times) /\ latest = Highest(Times))
    /\ (pc \in {"ready", "done", "crash"} =>
          /\ start = (IF args.start # <<>> THEN args.start[1] ELSE Lowest(Times))
          /\ end = (IF args.end # <<>> THEN args.end[1] ELSE Highest(Times) + TicksPerSecond))

\* A line was rejected by an explicit end bound and start was derived from
\* the lines that were kept.
C8_Witness ==
    /\ Built
    /\ args.start = <<>> /\ args.end # <<>>
    /\ num_read > Len(intervals)
    /\ intervals # <<>>
    /\ start = earliest /\ start > 0

\* C9: when no line is kept the program ends in sys.exit and neither
\* calculate_queue_time nor get_daily_maxima has run; an explicit window
\* with end <= start keeps no line.
C9_EmptyWindowFatal ==
    /\ (intervals = <<>> /\ pc # "read") => pc = "exit"
    /\ pc = "exit" => (intervals = <<>> /\ calls = <<>> /\ maxima = <<>>)
    /\ intervals = <<>> => (calls = <<>> /\ maxima = <<>>)
    /\ (args.start # <<>> /\ args.end # <<>> /\ args.end[1] <= args.start[1])
          => intervals = <<>>

\* Lines were read, all of them outside an inverted explicit window, and the
\* program has stopped.
C9_Witness ==
    /\ pc = "exit"
    /\ num_read = MaxLines
    /\ args.start # <<>> /\ args.end # <<>> /\ args.end[1] <= args.start[1]

\* C10: after any sequence of positive capacities typed at the prompt,
\* queue_time and maxima are those of a first run with the last capacity on
\* zeroed arrays, and cps_array is still what the load produced.
C10_FreshEachQuery ==
    (Ran /\ AllPositive) =>
        LET fresh == calculate_queue_time(cps_array, [i \in 1 .. num_entries |-> Zero], LastCps)
        IN  /\ queue_time = fresh.queue_time
            /\ maxima = get_daily_maxima(start, fresh.queue_time)
            /\ cps_array = load_cps_array(intervals, start, num_entries).cps_array

\* A second query with a larger capacity has cleared a backlog that the
\* first one had left in queue_time.
C10_Witness ==
    /\ Ran /\ Len(calls) = 2 /\ calls[1] = 1 /\ calls[2] = 2
    /\ \E i \in 1 .. Len(cps_array) : cps_array[i] = 2 /\ queue_time[i] = Zero

\* ------------------------------------------------- claims on the order of lines
\* 0-based slot the load computes for the k-th kept line (line 200).
SlotOf(k) == num_seconds(timedelta(intervals[k][1] - start))
\* The arrays were sized and the load of cps_array was started.
Sized == pc \in {"ready", "done", "crash"}
DistinctTimes ==
    \A j \in 1 .. Len(intervals) : \A k \in 1 .. Len(intervals) :
        j # k => intervals[j][1] # intervals[k][1]
Perms(n) == {f \in [1 .. n -> 1 .. n] : \A i \in 1 .. n : \A j \in 1 .. n : i # j => f[i] # f[j]}
Permuted(seq, f) == [i \in 1 .. Len(seq) |-> seq[f[i]]]

\* earliest and latest as lines 172-173 leave them after the kept lines ivals.
RECURSIVE track_earliest(_, _, _)
track_earliest(ivals, k, acc) ==
    IF k > Len(ivals) THEN acc
    ELSE track_earliest(ivals, k + 1, IF ivals[k][1] < acc THEN ivals[k][1] ELSE acc)

RECURSIVE track_latest(_, _, _)
track_latest(ivals, k, acc) ==
    IF k > Len(ivals) THEN acc
    ELSE track_latest(ivals, k + 1, IF ivals[k][1] > acc THEN ivals[k][1] ELSE acc)

\* What lines 186-201 produce from the kept lines ivals.
Outcome(ivals) ==
    LET s == IF args.start # <<>> THEN args.start[1] ELSE track_earliest(ivals, 1, datetime_max)
        e == IF args.end # <<>> THEN args.end[1]
             ELSE track_latest(ivals, 1, datetime_min) + ONE_SECOND
        n == num_seconds(timedelta(e - s))
    IN  [start |-> s, end |-> e, loaded |-> load_cps_array(ivals, s, n)]

\* C17: every kept line lies in [start, end) and its slot lies in
\* 0 .. len(cps_array) - 1: the load never indexes past the end of the array
\* nor through a negative index.
C17_IndexInRange ==
    Sized => \A k \in 1 .. Len(intervals) :
                /\ start <= intervals[k][1] /\ intervals[k][1] < end
                /\ 0 <= SlotOf(k) /\ SlotOf(k) < num_entries

\* C18: for kept lines with pairwise distinct timestamps, every order of
\* the lines gives the same bounds, the same cps_array and, for the capacity
\* of the last run, the same queue_time and maxima.
C18_OrderIndependent ==
    (Built /\ DistinctTimes) =>
        \A f \in Perms(Len(intervals)) :
            LET o == Outcome(Permuted(intervals, f)) IN
            /\ o.start = start /\ o.end = end
            /\ ~o.loaded.raised
            /\ o.loaded.cps_array = cps_array
            /\ Ran => LET r == calculate_queue_time(o.loaded.cps_array,
                                                    [i \in 1 .. num_entries |-> Zero], LastCps)
                      IN  /\ r.queue_time = queue_time
                          /\ get_daily_maxima(o.start, r.queue_time) = maxima

\* --------------------------------------------------------- claims on countcps
\* A pass of the loop of countcps, and one that raised nothing.
RowStep == count_pc = "rows" /\ count_num_read' = count_num_read + 1
RowDone == RowStep /\ count_pc' = "rows"

FlagsCell(row) == Field(cdrs_fieldnames, row, cdr_info.flags_col_id[1])[1]
DirectionCell(row) == Field(cdrs_fieldnames, row, cdr_info.direction_col_id[1])[1]
StartCell(row) == Field(cdrs_fieldnames, row, cdr_info.start_col_id[1])[1]
WaitCell(row) == Field(cdrs_fieldnames, row, cdr_info.queuetime_col_id[1])[1]

\* The row is kept by the tests on the columns detection found for them.
PassesOutbound(row) ==
    /\ IF cdr_info.flags_col_id = <<>> THEN TRUE
       ELSE FlagsCell(row).k = "num" /\ outbound_flag(FlagsCell(row).n)
    /\ IF cdr_info.direction_col_id = <<>> THEN TRUE
       ELSE DirectionCell(row).s \in {"Outgoing API", "outbound-api"}

\* Start minus the whole seconds of the wait, in ticks of local time.
Arrival(row) == StartCell(row).n - (WaitCell(row).n \div MsPerSecond) * TicksPerSecond

InWindow(t) ==
    /\ IF count_args.start = <<>> THEN TRUE ELSE count_args.start[1] <= t
    /\ IF count_args.end = <<>> THEN TRUE ELSE t < count_args.end[1]

CountOf(ivals, key) ==
    LET S == {i \in 1 .. Len(ivals) : ivals[i][1] = key} IN
    IF S = {} THEN 0 ELSE ivals[CHOOSE i \in S : TRUE][2]

\* C11: a row of a file with a queue-wait column that passes the outbound
\* tests and parses is counted iff start <= arrival < end for the bounds
\* given, where arrival is the parsed start minus the wait in milliseconds
\* truncated to whole seconds; it is counted under its arrival time.
C11_WindowOnArrival ==
    [][ (RowDone /\ cdr_info.queuetime_col_id # <<>> /\ PassesOutbound(cdr'))
        => LET key == [t |-> Arrival(cdr'), off |-> StartCell(cdr').off] IN
           /\ (num_counted' = num_counted + 1) <=> InWindow(Arrival(cdr'))
           /\ num_counted' = num_counted <=> ~InWindow(Arrival(cdr'))
           /\ InWindow(Arrival(cdr'))
                => CountOf(count_intervals', key) = CountOf(count_intervals, key) + 1
           /\ ~InWindow(Arrival(cdr')) => count_intervals' = count_intervals ]_vars

\* A row whose start time is inside the window and whose arrival is before
\* its start has been read and not counted.
C11_Witness ==
    /\ count_pc = "rows"
    /\ count_num_read = 1
    /\ cdr_info.queuetime_col_id # <<>>
    /\ count_args.start # <<>>
    /\ WaitCell(cdr).n >= MsPerSecond
    /\ InWindow(StartCell(cdr).n)
    /\ Arrival(cdr) < count_args.start[1]
    /\ num_counted = 0
    /\ count_intervals = <<>>

\* C12: every line written to the CPS file has a timestamp without a UTC
\* offset and without a fraction of a second, and no two lines are for the
\* same second.
C12_NaiveSecondLines ==
    \A i \in 1 .. Len(cps_file) :
        /\ cps_file[i].timestamp.offset = <<>>
        /\ cps_file[i].timestamp.fraction = 0
        /\ \A j \in 1 .. Len(cps_file) :
              cps_file[i].timestamp.seconds = cps_file[j].timestamp.seconds => i = j

\* The Flags value, the start time or the wait of the row does not parse; the
\* start time and the wait are looked at only in a row the outbound tests keep.
ParseFails(row) ==
    \/ cdr_info.flags_col_id # <<>> /\ FlagsCell(row).k # "num"
    \/ /\ PassesOutbound(row)
       /\ \/ ~parses_as(StartCell(row), cdr_info.datetime_format)
          \/ cdr_info.queuetime_col_id # <<>> /\ WaitCell(row).k # "num"

\* C13: a pass of the loop over a row with such a parse failure ends the run
\* at that row, with the counts as they were and nothing written; a run that
\* has ended takes no further step, so no later row is read and the CPS file
\* stays empty.
C13_ParseFailureFatal ==
    [][ /\ (RowStep /\ ParseFails(cdr'))
            => /\ count_pc' = "exit"
               /\ cps_file' = <<>>
               /\ count_intervals' = count_intervals
               /\ num_counted' = num_counted
        /\ count_pc # "exit" ]_vars

\* The first row was counted, the second does not parse: the run has ended
\* with one call counted and an empty CPS file.
C13_Witness ==
    /\ count_pc = "exit"
    /\ count_num_read = 2
    /\ num_counted = 1
    /\ count_intervals # <<>>
    /\ ParseFails(cdr)
    /\ cps_file = <<>>

\* The columns of the header row named Flags/flags and Direction/direction.
FlagsNamed == look_for_header(cdrs_fieldnames, <<"Flags", "flags">>)
DirectionNamed == look_for_header(cdrs_fieldnames, <<"Direction", "direction">>)

\* The row is an Outgoing API call by the columns its header row names.
OutgoingApi(row) ==
    /\ IF FlagsNamed = <<>> THEN TRUE
       ELSE LET c == Field(cdrs_fieldnames, row, FlagsNamed[1])[1]
            IN  c.k = "num" /\ outbound_flag(c.n)
    /\ IF DirectionNamed = <<>> THEN TRUE
       ELSE Field(cdrs_fieldnames, row, DirectionNamed[1])[1].s \in {"Outgoing API", "outbound-api"}

\* C14: whatever --type is, a row of a file whose header row has a Flags or
\* a Direction column is counted only if bit 0x0002 of its Flags value is
\* set and its Direction value is 'Outgoing API' or 'outbound-api'.
C14_OnlyOutgoingCounted ==
    [][ (RowStep /\ cdr_info.has_header /\ num_counted' = num_counted + 1)
            => OutgoingApi(cdr') ]_vars

\* Detection has run, and has run to its end without sys.exit.
Detected == cdr_file # <<>>
DetectionSucceeded == Detected /\ (count_pc # "exit" \/ count_num_read > 0)

IsStamp(cell) == cell.k \in {DATETIME_FORMATS[f] : f \in 1 .. Len(DATETIME_FORMATS)}
HeaderFound == \A i \in 1 .. Len(cdr_file[1]) : ~IsStamp(cdr_file[1][i])
HeaderNames == [i \in 1 .. Len(cdr_file[1]) |-> cdr_file[1][i].s]

\* The explicit column exists, and its cell in the sample row (the row after
\* the header, or the first row of a file without one) is a timestamp of the
\* format detected; the hint of a header agrees with what the file has.
ExplicitOk ==
    IF count_args.type = "header"
    THEN /\ HeaderFound
         /\ Len(cdr_file) >= 2
         /\ \E i \in 1 .. Len(HeaderNames) :
               /\ HeaderNames[i] = count_args.column[1]
               /\ cdr_file[2][i].k = cdr_info.datetime_format
    ELSE /\ ~HeaderFound
         /\ \E i \in 1 .. Len(cdr_file[1]) :
               /\ DEFAULT_FIELDNAMES[i] = count_args.column[1]
               /\ cdr_file[1][i].k = cdr_info.datetime_format

\* C15: with an explicit column (--type header or positional), detection
\* succeeds only if the hint agrees with the file and the column exists and
\* is a timestamp in the sample row, and the start column is then the one
\* given; otherwise the run has ended with no row read or counted and
\* nothing written.
C15_ExplicitColumn ==
    (Detected /\ count_args.type \in {"header", "positional"}) =>
        /\ DetectionSucceeded => (ExplicitOk /\ cdr_info.start_col_id = count_args.column)
        /\ ~ExplicitOk => /\ count_pc = "exit"
                          /\ count_num_read = 0
                          /\ num_counted = 0
                          /\ count_intervals = <<>>
                          /\ cps_file = <<>>

\* --type header --column StartTime on a file whose first column is a
\* timestamp too: the first row is counted under its StartTime.
C15_Witness ==
    /\ count_args.type = "header"
    /\ count_args.column = <<"StartTime">>
    /\ Len(cdr_file) >= 2
    /\ Len(cdr_file[2]) = 2
    /\ HeaderNames[2] = "StartTime"
    /\ cdr_file[2][1].k = cdr_file[2][2].k
    /\ cdr_file[2][1].n # cdr_file[2][2].n
    /\ count_pc = "rows"
    /\ count_num_read = 1
    /\ num_counted = 1
    /\ count_intervals = << <<[t |-> cdr_file[2][2].n, off |-> cdr_file[2][2].off], 1>> >>

\* The sample row of detection, and its candidate timestamp columns.
HasSample == Detected /\ (HeaderFound => Len(cdr_file) >= 2)
SampleRow == IF HeaderFound THEN cdr_file[2] ELSE cdr_file[1]
Candidates == {i \in 1 .. Len(SampleRow) : SampleRow[i].k = cdr_info.datetime_format}
FirstCandidate == CHOOSE i \in Candidates : \A j \in Candidates : i <= j
\* The id of a column: its name in the header row, or its ordinal.
ColumnId(i) == IF HeaderFound THEN HeaderNames[i] ELSE DEFAULT_FIELDNAMES[i]

AliasNames == {START_ALIASES[j] : j \in 1 .. Len(START_ALIASES)}
AliasCandidates == {i \in Candidates : HeaderFound /\ HeaderNames[i] \in AliasNames}
\* The aliases the header row has, by their place in the list of aliases.
AliasesPresent ==
    {j \in 1 .. Len(START_ALIASES) :
        HeaderFound /\ \E i \in 1 .. Len(HeaderNames) : HeaderNames[i] = START_ALIASES[j]}
FirstAlias == START_ALIASES[CHOOSE j \in AliasesPresent : \A h \in AliasesPresent : j <= h]

AutoCase == HasSample /\ count_args.type = "auto" /\ Candidates # {}

\* C16 as stated: under --type auto with a candidate timestamp column,
\* detection succeeds; the start column is an alias-named candidate column
\* when there is one, and the first candidate column otherwise.
C16_AliasElseFirst ==
    AutoCase =>
        /\ DetectionSucceeded
        /\ IF AliasCandidates # {}
           THEN \E i \in AliasCandidates : cdr_info.start_col_id = <<ColumnId(i)>>
           ELSE cdr_info.start_col_id = <<ColumnId(FirstCandidate)>>

\* C16 as amended: under --type auto with a candidate timestamp column, if
\* the header row has an alias, the first alias it has (in the order
\* DateCreated, date_created, StartTime, start_time) is the start column
\* when that column is a candidate, and otherwise the run ends at detection
\* with nothing read or written; with no alias in the header row, or no
\* header row, the start column is the first candidate column.  A start
\* column of a successful detection is the id of a candidate column.
C16_FirstAliasOrFatal ==
    AutoCase =>
        /\ IF AliasesPresent # {}
           THEN IF \E i \in Candidates : HeaderNames[i] = FirstAlias
                THEN DetectionSucceeded /\ cdr_info.start_col_id = <<FirstAlias>>
                ELSE /\ count_pc = "exit"
                     /\ count_num_read = 0
                     /\ cps_file = <<>>
           ELSE DetectionSucceeded /\ cdr_info.start_col_id = <<ColumnId(FirstCandidate)>>
        /\ DetectionSucceeded => \E i \in Candidates : cdr_info.start_col_id = <<ColumnId(i)>>

\* The header row has two aliases; the first of them in the order of the
\* aliases is no timestamp in the sample row, the other one is: the run has
\* ended at detection.
C16_Witness ==
    /\ AutoCase
    /\ HeaderFound
    /\ HeaderNames = <<"StartTime", "date_created">>
    /\ Candidates = {1}
    /\ count_pc = "exit"
    /\ count_num_read = 0

====
